---- MODULE Spec2Model ----
(***************************************************************************)
(* Model of dms3-fs/go-path: the path grammar (package path) and the       *)
(* iterative link resolver (package resolver).                             *)
(*                                                                         *)
(* A string is a sequence of tokens.  The token "/" is the separator; any  *)
(* other token is a whole, slash-free path component ("dms3fs", "Qm1",     *)
(* "..", "a", ...).  Strings are built by Join and concatenation only, so  *)
(* two component tokens are never adjacent.  A component is a TLA+ string, *)
(* "" being the empty component.                                           *)
(***************************************************************************)
EXTENDS Integers, Sequences, FiniteSets, TLC

\* ------------------------------------------------------------------ bounds
MaxParts == 5
MaxNames == 2

\* --------------------------------------------------------------- alphabets
Slash == "/"
Components == {"", ".", "..", "dms3ld", "dms3ns", "dms3fs", "Qm1", "a"}
SegComponents == {"", "..", "Qm1", "child", "grandchild"}
\* "missing" names a link no node has.
LinkNames == {"child", "grandchild", "missing"}
Prefixes == {<<>>, <<"">>, <<"", "dms3fs">>, <<"", "dms3ld">>, <<"", "dms3ns">>}

SeqsUpTo(S, lo, hi) == UNION {[1..n -> S] : n \in lo..hi}

\* ------------------------------------------------------ content identifiers
\* cid.Decode and Cid.String, on the ids of the three nodes of the store.
CidStrings == <<"Qm1", "Qm2", "Qm3">>
Cids == DOMAIN CidStrings
NoCid == 0

CidString(c) == CidStrings[c]

Decode(s) ==
    IF Len(s) = 1 /\ \E c \in Cids : CidStrings[c] = s[1]
    THEN [cid |-> CHOOSE c \in Cids : CidStrings[c] = s[1], err |-> ""]
    ELSE [cid |-> NoCid, err |-> "ErrDecode"]

\* ---------------------------------------------------------- string helpers
\* strings.Split, strings.Join and path.Clean.
Str(c) == IF c = "" THEN <<>> ELSE <<c>>

RECURSIVE SplitFrom(_, _, _)
SplitFrom(s, i, cur) ==
    IF i > Len(s) THEN <<cur>>
    ELSE IF s[i] = Slash THEN <<cur>> \o SplitFrom(s, i + 1, "")
    ELSE SplitFrom(s, i + 1, s[i])

SplitList(pth) == SplitFrom(pth, 1, "")

RECURSIVE Join(_)
Join(pths) ==
    IF Len(pths) = 0 THEN <<>>
    ELSE IF Len(pths) = 1 THEN Str(pths[1])
    ELSE Str(pths[1]) \o <<Slash>> \o Join(Tail(pths))

RECURSIVE CleanFrom(_, _, _, _)
CleanFrom(elems, i, rooted, out) ==
    IF i > Len(elems) THEN out
    ELSE IF elems[i] = "" \/ elems[i] = "." THEN CleanFrom(elems, i + 1, rooted, out)
    ELSE IF elems[i] = ".." THEN
        IF Len(out) > 0 /\ out[Len(out)] # ".."
        THEN CleanFrom(elems, i + 1, rooted, SubSeq(out, 1, Len(out) - 1))
        ELSE IF rooted THEN CleanFrom(elems, i + 1, rooted, out)
        ELSE CleanFrom(elems, i + 1, rooted, Append(out, ".."))
    ELSE CleanFrom(elems, i + 1, rooted, Append(out, elems[i]))

Clean(s) ==
    LET rooted == Len(s) > 0 /\ s[1] = Slash
        out == CleanFrom(SplitList(s), 1, rooted, <<>>)
    IN  IF rooted THEN <<Slash>> \o Join(out)
        ELSE IF out = <<>> THEN <<".">>
        ELSE Join(out)

\* -------------------------------------------------------------- package path
DMS3FSPrefix == <<Slash, "dms3fs", Slash>>

FromCid(c) == DMS3FSPrefix \o <<CidString(c)>>

\* A faulty Segments: the elements in reverse order.
SegmentsReversed(p) ==
    LET segments == SplitList(Clean(p))
        kept == IF segments[1] = "" THEN Tail(segments) ELSE segments
    IN  [i \in 1..Len(kept) |-> kept[Len(kept) + 1 - i]]

Segments(p) ==
    LET segments == SplitList(Clean(p))
    IN  IF segments[1] = "" THEN Tail(segments) ELSE segments

IsJustAKey(p) ==
    LET parts == Segments(p)
    IN  Len(parts) = 2 /\ (parts[1] = "dms3fs" \/ parts[1] = "dms3ld")

ParseCidToPath(txt) ==
    IF txt = <<>> THEN [path |-> <<>>, err |-> "ErrNoComponents"]
    ELSE LET d == Decode(txt)
         IN  IF d.err # "" THEN [path |-> <<>>, err |-> d.err]
             ELSE [path |-> FromCid(d.cid), err |-> ""]

ParsePath(txt) ==
    LET parts == SplitList(txt)
    IN  IF Len(parts) = 1 /\ ParseCidToPath(txt).err = "" THEN ParseCidToPath(txt)
        ELSE IF parts[1] # "" THEN
            IF ParseCidToPath(Str(parts[1])).err # ""
            THEN [path |-> <<>>, err |-> "ErrBadPath"]
            ELSE [path |-> DMS3FSPrefix \o txt, err |-> ""]
        ELSE IF Len(parts) < 3 THEN [path |-> <<>>, err |-> "ErrBadPath"]
        ELSE IF parts[2] = "dms3fs" THEN
            IF ParseCidToPath(Str(parts[3])).err # ""
            THEN [path |-> <<>>, err |-> ParseCidToPath(Str(parts[3])).err]
            ELSE [path |-> txt, err |-> ""]
        ELSE IF parts[2] # "dms3ns" /\ parts[2] # "dms3ld"
            THEN [path |-> <<>>, err |-> "ErrBadPath"]
        ELSE [path |-> txt, err |-> ""]

\* A faulty IsValid: every string passes.
IsValidUnchecked(p) == ""

IsValid(p) == ParsePath(p).err

\* A faulty PopLastSegment: the head keeps the segment popped.
PopLastSegmentKeepsLast(p) ==
    IF IsJustAKey(p) THEN [path |-> p, seg |-> "", err |-> ""]
    ELSE LET segs == Segments(p)
             newPath == ParsePath(<<Slash>> \o Join(segs))
         IN  IF newPath.err # "" THEN [path |-> <<>>, seg |-> "", err |-> newPath.err]
             ELSE [path |-> newPath.path, seg |-> segs[Len(segs)], err |-> ""]

PopLastSegment(p) ==
    IF IsJustAKey(p) THEN [path |-> p, seg |-> "", err |-> ""]
    ELSE LET segs == Segments(p)
             newPath == ParsePath(<<Slash>> \o Join(SubSeq(segs, 1, Len(segs) - 1)))
         IN  IF newPath.err # "" THEN [path |-> <<>>, seg |-> "", err |-> newPath.err]
             ELSE [path |-> newPath.path, seg |-> segs[Len(segs)], err |-> ""]

\* A faulty SplitAbsPath: the namespace tag is not dropped.
SplitAbsPathKeepsTag(fpath) ==
    LET parts == Segments(fpath)
    IN  IF Len(parts) = 0 THEN [cid |-> NoCid, parts |-> <<>>, err |-> "ErrNoComponents"]
        ELSE IF Decode(Str(parts[1])).err # ""
            THEN [cid |-> NoCid, parts |-> <<>>, err |-> Decode(Str(parts[1])).err]
        ELSE [cid |-> Decode(Str(parts[1])).cid, parts |-> Tail(parts), err |-> ""]

SplitAbsPath(fpath) ==
    LET segs == Segments(fpath)
        parts == IF segs[1] = "dms3fs" \/ segs[1] = "dms3ld" THEN Tail(segs) ELSE segs
    IN  IF Len(parts) = 0 THEN [cid |-> NoCid, parts |-> <<>>, err |-> "ErrNoComponents"]
        ELSE IF Decode(Str(parts[1])).err # ""
            THEN [cid |-> NoCid, parts |-> <<>>, err |-> Decode(Str(parts[1])).err]
        ELSE [cid |-> Decode(Str(parts[1])).cid, parts |-> Tail(parts), err |-> ""]

\* ---------------------------------------------------- the node-fetch service
\* The test's graph: a --child--> b --grandchild--> c, all three in the store.
NodeA == 1
NodeB == 2
NodeC == 3

Links(nd) ==
    IF nd = NodeA THEN {<<"child", NodeB>>}
    ELSE IF nd = NodeB THEN {<<"grandchild", NodeC>>}
    ELSE {}

HasLink(nd, name) == \E l \in Links(nd) : l[1] = name
LinkTarget(nd, name) == (CHOOSE l \in Links(nd) : l[1] = name)[2]

\* A node is known by its id: the store is content-addressed.
Cid(nd) == nd

\* nd.ResolveLink(names): the link named names[0] and the names after it, or
\* link-not-found with no link.
ResolveSingle(nd, names) ==
    IF HasLink(nd, names[1])
    THEN [lnk |-> LinkTarget(nd, names[1]), rest |-> Tail(names), err |-> ""]
    ELSE [lnk |-> NoCid, rest |-> names, err |-> "ErrLinkNotFound"]

\* What the pluggable single-hop function may hand back: the link table's
\* answer, a failure of another kind with no link, or a link together with
\* an error.
ResolveOnce(nd, names) ==
    {ResolveSingle(nd, names), [lnk |-> NoCid, rest |-> <<>>, err |-> "ErrOther"]}
    \cup (IF HasLink(nd, names[1])
          THEN {[ResolveSingle(nd, names) EXCEPT !.err = "ErrOther"]}
          ELSE {})

\* nd.Resolve(p): a value (a link or not), the names it left, or an error.
RECURSIVE Suffixes(_)
Suffixes(s) == IF s = <<>> THEN {<<>>} ELSE {s} \cup Suffixes(Tail(s))

NodeResolve(nd, p) ==
    {[val |-> v, rest |-> r, err |-> ""] : v \in {"data", "link"}, r \in Suffixes(p)}
    \cup {[val |-> "none", rest |-> <<>>, err |-> "ErrResolve"]}

\* ------------------------------------------------------ contexts, deadlines
Minute == 60
Delays == {0, 40}
NoDeadline == [set |-> FALSE, at |-> 0]
CallerDeadlines == {NoDeadline, [set |-> TRUE, at |-> 50], [set |-> TRUE, at |-> 90]}

WithTimeout(parent, t, d) ==
    IF parent.set /\ parent.at <= t + d THEN parent ELSE [set |-> TRUE, at |-> t + d]

Expires(c, t, d) == c.set /\ t + d >= c.at
TimeAfter(c, t, d) ==
    IF Expires(c, t, d) THEN (IF c.at > t THEN c.at ELSE t) ELSE t + d

\* ------------------------------------------------------------------- state
VARIABLES
    parts,          \* the components the input string is built from
    txt,            \* the input string
    call,           \* the operation under way
    pc,             \* its position
    ret,            \* what it returned
    ndd,            \* the root node
    given,          \* the link names the walk was given
    nd,             \* the cursor node
    names,          \* the link names not yet consumed
    result,         \* ResolveLinks: the nodes so far
    lnk,            \* the link the last hop found
    rest,           \* the names the last hop left
    inNode,         \* ResolveToLastNode: what nd.Resolve handed back
    fetched,        \* the ids asked of the fetch service, in order
    now,            \* the clock
    callerCtx,      \* the caller's deadline
    ctx,            \* ResolveLinks: the deadline of its ctx variable
    hops            \* per hop: its start, its deadline, its node, name and error

vars == <<parts, txt, call, pc, ret, ndd, given, nd, names, result, lnk, rest,
          inNode, fetched, now, callerCtx, ctx, hops>>

inputVars == <<parts, txt, call, callerCtx>>
walkVars == <<ndd, given, nd, names, result, lnk, rest, inNode, fetched, now, ctx, hops>>

NoRet == [op |-> "none"]

InitWalk ==
    /\ ndd = NoCid /\ given = <<>> /\ nd = NoCid /\ names = <<>> /\ result = <<>>
    /\ lnk = NoCid /\ rest = <<>> /\ inNode = NoRet /\ fetched = <<>> /\ now = 0
    /\ ctx = callerCtx /\ hops = <<>>

\* ------------------------------------------------------ package path, applied
PathInputs == SeqsUpTo(Components, 1, MaxParts)

InitPath ==
    /\ parts \in PathInputs
    /\ txt = Join(parts)
    /\ call = "path" /\ pc = "start" /\ ret = NoRet
    /\ callerCtx = NoDeadline
    /\ InitWalk

CallParsePath ==
    /\ pc = "start"
    /\ LET r == ParsePath(txt)
       IN  ret' = [op |-> "ParsePath", path |-> r.path, err |-> r.err]
    /\ pc' = "done"
    /\ UNCHANGED <<inputVars, walkVars>>

\* ParsePath, then Segments and IsJustAKey of the path it returned.
CallSegments ==
    /\ pc = "start"
    /\ LET r == ParsePath(txt)
       IN  ret' = [op |-> "Segments", p |-> r.path, err |-> r.err,
                   segs |-> IF r.err = "" THEN Segments(r.path) ELSE <<>>,
                   justAKey |-> r.err = "" /\ IsJustAKey(r.path)]
    /\ pc' = "done"
    /\ UNCHANGED <<inputVars, walkVars>>

\* ParsePath, then PopLastSegment of the path it returned, then ParsePath and
\* Segments of the head.
CallPopLastSegment ==
    /\ pc = "start"
    /\ LET p == ParsePath(txt)
           r == PopLastSegment(p.path)
       IN  /\ p.err = ""
           /\ ret' = [op |-> "PopLastSegment", p |-> p.path, segs |-> Segments(p.path),
                      justAKey |-> IsJustAKey(p.path),
                      head |-> r.path, tail |-> r.seg, err |-> r.err,
                      headErr |-> IF r.err = "" THEN ParsePath(r.path).err ELSE r.err,
                      headSegs |-> IF r.err = "" THEN Segments(r.path) ELSE <<>>]
    /\ pc' = "done"
    /\ UNCHANGED <<inputVars, walkVars>>

NextPath == CallParsePath \/ CallSegments \/ CallPopLastSegment

SpecPath == InitPath /\ [][NextPath]_vars

\* ------------------------------------------------------------ package resolver
ResolverInputs ==
    {pre \o sg : pre \in Prefixes, sg \in SeqsUpTo(SegComponents, 1, MaxNames + 1)}

Init ==
    /\ callerCtx \in CallerDeadlines
    /\ InitWalk
    /\ ret = NoRet
    /\ \/ /\ call \in {"ResolvePath", "ResolveToLastNode"}
          /\ parts \in ResolverInputs
          /\ txt = Join(parts)
          /\ pc = "start"
       \/ /\ call = "ResolveLinks"
          /\ parts = <<>> /\ txt = <<>>
          /\ pc = "links_start"

\* A faulty LastNode: the first node of the chain.
LastNodeFirst(nodes, err) ==
    IF err # "" \/ nodes = <<>> THEN NoCid ELSE nodes[1]

\* ResolvePath keeps the last node of the chain ResolvePathComponents
\* returned, and nothing when it failed or the chain is nil.
LastNode(nodes, err) ==
    IF err # "" \/ nodes = <<>> THEN NoCid ELSE nodes[Len(nodes)]

\* What the call hands back: nodes is the chain ResolveLinks returned (to its
\* caller or to ResolvePathComponents), node the node ResolvePath returned,
\* cid and rest the id and names ResolveToLastNode returned; name and under are
\* the fields of an ErrNoLink.
Return(nodes, c, rst, err, name, under) ==
    [op |-> call, nodes |-> nodes,
     node |-> IF call = "ResolvePath" THEN LastNode(nodes, err) ELSE NoCid,
     cid |-> c, rest |-> rst, err |-> err, name |-> name, under |-> under]

Fail(err) == Return(<<>>, NoCid, <<>>, err, "", NoCid)

Finish(r) ==
    /\ ret' = r
    /\ pc' = "done"

\* ResolvePath, to the root's fetch: IsValid, then SplitAbsPath.
ResolvePathInvalid ==
    /\ call = "ResolvePath" /\ pc = "start"
    /\ IsValid(txt) # ""
    /\ Finish(Fail(IsValid(txt)))
    /\ UNCHANGED <<inputVars, walkVars>>

ResolvePathNoRoot ==
    /\ call = "ResolvePath" /\ pc = "start"
    /\ IsValid(txt) = ""
    /\ SplitAbsPath(txt).err # ""
    /\ Finish(Fail(SplitAbsPath(txt).err))
    /\ UNCHANGED <<inputVars, walkVars>>

ResolvePathSplit ==
    /\ call = "ResolvePath" /\ pc = "start"
    /\ IsValid(txt) = ""
    /\ SplitAbsPath(txt).err = ""
    /\ ndd' = SplitAbsPath(txt).cid
    /\ given' = SplitAbsPath(txt).parts
    /\ pc' = "get"
    /\ UNCHANGED <<inputVars, ret, nd, names, result, lnk, rest, inNode, fetched,
                   now, ctx, hops>>

\* ResolveToLastNode, to the root's fetch.
ToLastNoRoot ==
    /\ call = "ResolveToLastNode" /\ pc = "start"
    /\ SplitAbsPath(txt).err # ""
    /\ Finish(Fail(SplitAbsPath(txt).err))
    /\ UNCHANGED <<inputVars, walkVars>>

ToLastJustAKey ==
    /\ call = "ResolveToLastNode" /\ pc = "start"
    /\ SplitAbsPath(txt).err = ""
    /\ Len(SplitAbsPath(txt).parts) = 0
    /\ Finish(Return(<<>>, SplitAbsPath(txt).cid, <<>>, "", "", NoCid))
    /\ UNCHANGED <<inputVars, walkVars>>

ToLastSplit ==
    /\ call = "ResolveToLastNode" /\ pc = "start"
    /\ SplitAbsPath(txt).err = ""
    /\ Len(SplitAbsPath(txt).parts) > 0
    /\ ndd' = SplitAbsPath(txt).cid
    /\ given' = SplitAbsPath(txt).parts
    /\ pc' = "get"
    /\ UNCHANGED <<inputVars, ret, nd, names, result, lnk, rest, inNode, fetched,
                   now, ctx, hops>>

\* A fetch that takes d under deadline c either ends by the deadline with
\* the context's error or runs its time and may fail on its own.
FetchFails(c, e) ==
    \E d \in Delays :
        /\ now' = TimeAfter(c, now, d)
        /\ e = IF Expires(c, now, d) THEN "DeadlineExceeded" ELSE "ErrFetch"

FetchSucceeds(c) ==
    \E d \in Delays :
        /\ ~Expires(c, now, d)
        /\ now' = now + d

\* r.DAG.Get(ctx, c) under the caller's ctx.
DagGetFail ==
    /\ pc = "get"
    /\ \E e \in {"DeadlineExceeded", "ErrFetch"} :
        /\ FetchFails(callerCtx, e)
        /\ Finish(Fail(e))
    /\ fetched' = Append(fetched, ndd)
    /\ UNCHANGED <<inputVars, ndd, given, nd, names, result, lnk, rest, inNode, ctx, hops>>

DagGetOk ==
    /\ pc = "get"
    /\ FetchSucceeds(callerCtx)
    /\ fetched' = Append(fetched, ndd)
    /\ IF call = "ResolvePath"
       THEN pc' = "links_start" /\ UNCHANGED <<nd, names>>
       ELSE pc' = "last_loop" /\ nd' = ndd /\ names' = given
    /\ UNCHANGED <<inputVars, ret, ndd, given, result, lnk, rest, inNode, ctx, hops>>

\* ResolveLinks(ctx, ndd, names): called with a node and names, or by
\* ResolvePathComponents with the root it fetched.
ResolveLinksBegin ==
    /\ pc = "links_start"
    /\ IF call = "ResolveLinks"
       THEN /\ ndd' \in Cids
            /\ given' \in SeqsUpTo(LinkNames, 0, MaxNames)
       ELSE UNCHANGED <<ndd, given>>
    /\ result' = <<ndd'>>
    /\ nd' = ndd'
    /\ names' = given'
    /\ pc' = "links_loop"
    /\ UNCHANGED <<inputVars, ret, lnk, rest, inNode, fetched, now, ctx, hops>>

LinksDone ==
    /\ pc = "links_loop"
    /\ Len(names) = 0
    /\ Finish(Return(result, NoCid, <<>>, "", "", NoCid))
    /\ UNCHANGED <<inputVars, walkVars>>

\* One hop: the ctx variable gets a minute from now, then ResolveOnce.
HopCtx == WithTimeout(ctx, now, Minute)

Hop(c, o) ==
    /\ hops' = Append(hops, [start |-> now, deadline |-> c, nd |-> nd,
                             name |-> names[1], err |-> o.err])
    /\ lnk' = o.lnk
    /\ rest' = o.rest

\* A faulty ErrNoLink: it names the last name, not the first.
ErrNoLinkLastName(nms, node) == [name |-> nms[Len(nms)], under |-> Cid(node)]

ErrNoLink(nms, node) == [name |-> nms[1], under |-> Cid(node)]

LinksHopNoLink ==
    /\ pc = "links_loop"
    /\ Len(names) > 0
    /\ ctx' = HopCtx
    /\ \E o \in ResolveOnce(nd, names) :
        /\ o.err = "ErrLinkNotFound"
        /\ Hop(HopCtx, o)
    /\ Finish(Return(result, NoCid, <<>>, "ErrNoLink",
                     ErrNoLink(names, nd).name, ErrNoLink(names, nd).under))
    /\ UNCHANGED <<inputVars, ndd, given, nd, names, result, inNode, fetched, now>>

LinksHopError ==
    /\ pc = "links_loop"
    /\ Len(names) > 0
    /\ ctx' = HopCtx
    /\ \E o \in ResolveOnce(nd, names) :
        /\ o.err # "ErrLinkNotFound" /\ o.err # ""
        /\ Hop(HopCtx, o)
        /\ Finish(Return(result, NoCid, <<>>, o.err, "", NoCid))
    /\ UNCHANGED <<inputVars, ndd, given, nd, names, result, inNode, fetched, now>>

LinksHopFound ==
    /\ pc = "links_loop"
    /\ Len(names) > 0
    /\ ctx' = HopCtx
    /\ \E o \in ResolveOnce(nd, names) :
        /\ o.err = ""
        /\ Hop(HopCtx, o)
    /\ pc' = "links_fetch"
    /\ UNCHANGED <<inputVars, ret, ndd, given, nd, names, result, inNode, fetched, now>>

\* lnk.GetNode(ctx, r.DAG) under the hop's ctx.
LinksFetchFail ==
    /\ pc = "links_fetch"
    /\ \E e \in {"DeadlineExceeded", "ErrFetch"} :
        /\ FetchFails(ctx, e)
        /\ Finish(Return(result, NoCid, <<>>, e, "", NoCid))
    /\ fetched' = Append(fetched, lnk)
    /\ UNCHANGED <<inputVars, ndd, given, nd, names, result, lnk, rest, inNode, ctx, hops>>

LinksFetchOk ==
    /\ pc = "links_fetch"
    /\ FetchSucceeds(ctx)
    /\ fetched' = Append(fetched, lnk)
    /\ nd' = lnk
    /\ result' = Append(result, lnk)
    /\ names' = rest
    /\ pc' = "links_loop"
    /\ UNCHANGED <<inputVars, ret, ndd, given, lnk, rest, inNode, ctx, hops>>

\* ResolveToLastNode's walk, under the caller's ctx.
ToLastWalked ==
    /\ pc = "last_loop"
    /\ Len(names) = 0
    /\ Finish(Return(<<>>, Cid(nd), <<>>, "", "", NoCid))
    /\ UNCHANGED <<inputVars, walkVars>>

ToLastHopBreak ==
    /\ pc = "last_loop"
    /\ Len(names) > 0
    /\ \E o \in ResolveOnce(nd, names) :
        /\ o.lnk = NoCid
        /\ Hop(callerCtx, o)
    /\ pc' = "last_resolve"
    /\ UNCHANGED <<inputVars, ret, ndd, given, nd, names, result, inNode, fetched, now, ctx>>

ToLastHopError ==
    /\ pc = "last_loop"
    /\ Len(names) > 0
    /\ \E o \in ResolveOnce(nd, names) :
        /\ o.lnk # NoCid /\ o.err # ""
        /\ Hop(callerCtx, o)
        /\ Finish(Fail(o.err))
    /\ UNCHANGED <<inputVars, ndd, given, nd, names, result, inNode, fetched, now, ctx>>

ToLastHopFound ==
    /\ pc = "last_loop"
    /\ Len(names) > 0
    /\ \E o \in ResolveOnce(nd, names) :
        /\ o.lnk # NoCid /\ o.err = ""
        /\ Hop(callerCtx, o)
    /\ pc' = "last_fetch"
    /\ UNCHANGED <<inputVars, ret, ndd, given, nd, names, result, inNode, fetched, now, ctx>>

ToLastFetchFail ==
    /\ pc = "last_fetch"
    /\ \E e \in {"DeadlineExceeded", "ErrFetch"} :
        /\ FetchFails(callerCtx, e)
        /\ Finish(Fail(e))
    /\ fetched' = Append(fetched, lnk)
    /\ UNCHANGED <<inputVars, ndd, given, nd, names, result, lnk, rest, inNode, ctx, hops>>

ToLastFetchOk ==
    /\ pc = "last_fetch"
    /\ FetchSucceeds(callerCtx)
    /\ fetched' = Append(fetched, lnk)
    /\ nd' = lnk
    /\ names' = rest
    /\ pc' = "last_loop"
    /\ UNCHANGED <<inputVars, ret, ndd, given, result, lnk, rest, inNode, ctx, hops>>

\* A faulty ToLastInNode: it returns what nd.Resolve left, not p.
ToLastInNodeReturnsLeftover(node, p, o) ==
    IF o.err # "" THEN Fail(o.err)
    ELSE IF Len(o.rest) > 0 THEN Fail("ErrNotResolvedFully")
    ELSE IF o.val = "link" THEN Fail("ErrInconsistent")
    ELSE Return(<<>>, Cid(node), o.rest, "", "", NoCid)

\* After the walk, names left: nd.Resolve(p) decides.
ToLastInNode(node, p, o) ==
    IF o.err # "" THEN Fail(o.err)
    ELSE IF Len(o.rest) > 0 THEN Fail("ErrNotResolvedFully")
    ELSE IF o.val = "link" THEN Fail("ErrInconsistent")
    ELSE Return(<<>>, Cid(node), p, "", "", NoCid)

ToLastResolve ==
    /\ pc = "last_resolve"
    /\ \E o \in NodeResolve(nd, names) :
        /\ inNode' = [op |-> "Resolve", val |-> o.val, rest |-> o.rest, err |-> o.err]
        /\ Finish(ToLastInNode(nd, names, o))
    /\ UNCHANGED <<inputVars, ndd, given, nd, names, result, lnk, rest, fetched, now, ctx, hops>>

Next ==
    \/ ResolvePathInvalid \/ ResolvePathNoRoot \/ ResolvePathSplit
    \/ ToLastNoRoot \/ ToLastJustAKey \/ ToLastSplit
    \/ DagGetFail \/ DagGetOk
    \/ ResolveLinksBegin \/ LinksDone
    \/ LinksHopNoLink \/ LinksHopError \/ LinksHopFound
    \/ LinksFetchFail \/ LinksFetchOk
    \/ ToLastWalked \/ ToLastHopBreak \/ ToLastHopError \/ ToLastHopFound
    \/ ToLastFetchFail \/ ToLastFetchOk
    \/ ToLastResolve

Spec == Init /\ [][Next]_vars

\* ------------------------------------------------------------------ claims
IdTags == {"dms3fs", "dms3ld"}
IsCidString(c) == \E k \in Cids : CidStrings[k] = c
EnvErrors == {"ErrFetch", "DeadlineExceeded", "ErrOther"}
Last(s) == s[Len(s)]

RECURSIVE AllLinked(_, _)
AllLinked(n, nms) ==
    \/ nms = <<>>
    \/ /\ \E l \in Links(n) : l[1] = nms[1]
       /\ AllLinked((CHOOSE l \in Links(n) : l[1] = nms[1])[2], Tail(nms))

\* the string is /<idTag>/<R.id>/n1/../nk
IsIdPath(ps) ==
    /\ Len(ps) >= 3
    /\ ps[1] = "" /\ ps[2] \in IdTags /\ IsCidString(ps[3])

RootOf(ps) == CHOOSE k \in Cids : CidStrings[k] = ps[3]
NamesOf(ps) == SubSeq(ps, 4, Len(ps))

\* C1: when every name is a link of the node reached so far and neither the
\* single-hop function nor a fetch fails, ResolveLinks returns no error and
\* k+1 nodes, the first the root and each next one the target of the link
\* named names[i] in the one before; ResolvePath on /<idTag>/<R.id>/n1/../nk
\* returns the last node of that chain.
C1_ChainResolved ==
    /\ (/\ pc = "done" /\ call = "ResolveLinks"
        /\ AllLinked(ndd, given) /\ ret.err \notin EnvErrors)
       => /\ ret.err = ""
          /\ Len(ret.nodes) = Len(given) + 1
          /\ ret.nodes[1] = ndd
          /\ \A i \in 1..Len(given) : <<given[i], ret.nodes[i + 1]>> \in Links(ret.nodes[i])
    /\ (/\ pc = "done" /\ call = "ResolvePath" /\ IsIdPath(parts)
        /\ AllLinked(RootOf(parts), NamesOf(parts)) /\ ret.err \notin EnvErrors)
       => /\ ret.err = ""
          /\ Len(ret.nodes) = Len(NamesOf(parts)) + 1
          /\ ret.nodes[1] = RootOf(parts)
          /\ \A i \in 1..Len(NamesOf(parts)) :
                <<NamesOf(parts)[i], ret.nodes[i + 1]>> \in Links(ret.nodes[i])
          /\ ret.node = Last(ret.nodes)

C1_Witness ==
    /\ pc = "done" /\ call = "ResolvePath"
    /\ parts = <<"", "dms3fs", "Qm1", "child", "grandchild">>
    /\ ret.err = "" /\ ret.node = NodeC /\ ret.nodes = <<NodeA, NodeB, NodeC>>

\* C2: when the single-hop function reports link-not-found at a hop,
\* ResolveLinks returns ErrNoLink naming the first name not yet consumed and
\* the cursor node's id, with the chain built so far: the root and then the
\* nodes the earlier hops fetched, in order; nothing is fetched for or after
\* the failing hop.
C2_NoLinkStops ==
    (/\ pc = "done" /\ call \in {"ResolveLinks", "ResolvePath"}
     /\ Len(hops) > 0 /\ Last(hops).err = "ErrLinkNotFound")
    => /\ ret.err = "ErrNoLink"
       /\ ret.name = given[Len(hops)]
       /\ Len(ret.nodes) = Len(hops)
       /\ ret.under = Last(ret.nodes)
       /\ ret.nodes[1] = ndd
       /\ fetched = (IF call = "ResolvePath" THEN <<ndd>> ELSE <<>>) \o Tail(ret.nodes)
       /\ \A i \in 1..(Len(hops) - 1) : <<given[i], ret.nodes[i + 1]>> \in Links(ret.nodes[i])

C2_Witness ==
    /\ pc = "done" /\ call = "ResolveLinks"
    /\ ndd = NodeA /\ given = <<"child", "missing">>
    /\ ret.err = "ErrNoLink" /\ ret.name = "missing" /\ ret.under = NodeB
    /\ ret.nodes = <<NodeA, NodeB>> /\ fetched = <<NodeB>>

\* C3: for a string ParsePath rejects, ResolvePath returns ParsePath's error
\* and no node, and never asks the fetch service for anything.
C3_ValidatesFirst ==
    (call = "ResolvePath" /\ ParsePath(txt).err # "")
    => /\ fetched = <<>>
       /\ pc \in {"start", "done"}
       /\ pc = "done" => (ret.err = ParsePath(txt).err /\ ret.node = NoCid /\ ret.nodes = <<>>)

C3_Witness ==
    /\ pc = "done" /\ call = "ResolvePath"
    /\ parts = <<"", "Qm1", "child">>
    /\ ret.err = "ErrBadPath" /\ ret.node = NoCid /\ fetched = <<>>

\* C4: ResolveToLastNode on /<idTag>/<validId> returns that identifier, an
\* empty remainder and no error, and never asks the fetch service for
\* anything.
C4_JustAKeyNoFetch ==
    (/\ call = "ResolveToLastNode"
     /\ Len(parts) = 3 /\ parts[1] = "" /\ parts[2] \in IdTags /\ IsCidString(parts[3]))
    => /\ fetched = <<>>
       /\ pc \in {"start", "done"}
       /\ pc = "done" => /\ ret.err = ""
                         /\ ret.rest = <<>>
                         /\ ret.cid \in Cids
                         /\ CidStrings[ret.cid] = parts[3]

C4_Witness ==
    /\ pc = "done" /\ call = "ResolveToLastNode"
    /\ parts = <<"", "dms3ld", "Qm1">>
    /\ ret.err = "" /\ ret.cid = NodeA /\ ret.rest = <<>> /\ fetched = <<>>

\* C5: in ResolveToLastNode, with names left when the walk stops, the cursor
\* node's in-node resolution decides: nothing left over and a value that is
\* no link gives the cursor's id with exactly the names that were left and
\* no error; names left over give the not-resolved-fully error and no id; a
\* link gives the inconsistency error and no id.  With no names left after
\* the walk the call returns the cursor's id and an empty remainder.
C5_InNodeDecides ==
    (call = "ResolveToLastNode" /\ pc = "done" /\ Len(fetched) > 0)
    => LET cursor == Last(fetched)
           left == SubSeq(given, Len(fetched), Len(given))
       IN  /\ (inNode.op = "Resolve" /\ inNode.err = "")
              => /\ Len(left) > 0
                 /\ (Len(inNode.rest) = 0 /\ inNode.val # "link")
                    => (ret.err = "" /\ ret.cid = cursor /\ ret.rest = left)
                 /\ Len(inNode.rest) > 0
                    => (ret.err = "ErrNotResolvedFully" /\ ret.cid = NoCid)
                 /\ (Len(inNode.rest) = 0 /\ inNode.val = "link")
                    => (ret.err = "ErrInconsistent" /\ ret.cid = NoCid)
           /\ (inNode.op = "none" /\ ret.err = "")
              => (Len(left) = 0 /\ ret.cid = cursor /\ ret.rest = <<>>)

C5_Witness ==
    /\ pc = "done" /\ call = "ResolveToLastNode"
    /\ parts = <<"", "dms3fs", "Qm1", "child", "child">>
    /\ inNode.op = "Resolve" /\ inNode.val = "data" /\ inNode.rest = <<>>
    /\ ret.err = "" /\ ret.cid = NodeB /\ ret.rest = <<"child">>

\* C6: ParsePath rejects with ErrBadPath the empty string, "/<idTag>/",
\* "<idTag>/", and a leading slash directly followed by an identifier, with
\* or without further segments.
RejectForm(ps) ==
    \/ ps = <<"">>
    \/ Len(ps) = 3 /\ ps[1] = "" /\ ps[2] \in IdTags /\ ps[3] = ""
    \/ Len(ps) = 2 /\ ps[1] \in IdTags /\ ps[2] = ""
    \/ Len(ps) >= 2 /\ ps[1] = "" /\ IsCidString(ps[2])

C6_RejectsBadPath ==
    (ret.op = "ParsePath" /\ RejectForm(parts)) => ret.err = "ErrBadPath"

\* C7 as stated: for every string /<idTag>/<validId>(/<seg>)*, ParsePath
\* succeeds and Segments of the path is [idTag, validId, seg...].
IsIdForm(ps) ==
    /\ IsIdPath(ps)
    /\ \A i \in 4..Len(ps) : ps[i] # ""

C7_Original ==
    (ret.op = "Segments" /\ IsIdForm(parts))
    => (ret.err = "" /\ ret.segs = Tail(parts))

\* C7: for every string /<idTag>/<validId>(/<seg>)* in which no seg is "."
\* or "..", ParsePath succeeds and Segments of the path is
\* [idTag, validId, seg...], every segment present and in order.
C7_SegmentsInOrder ==
    (/\ ret.op = "Segments" /\ IsIdForm(parts)
     /\ \A i \in 4..Len(parts) : parts[i] \notin {".", ".."})
    => (ret.err = "" /\ ret.segs = Tail(parts))

C7_Witness ==
    /\ ret.op = "Segments"
    /\ parts = <<"", "dms3ld", "Qm1", "a", "dms3ns">>
    /\ ret.err = "" /\ ret.segs = <<"dms3ld", "Qm1", "a", "dms3ns">>

\* C8 as stated: for every path p ParsePath returned, PopLastSegment of a
\* just-a-key p is (p, "") with no error, and of a p with a segment after the
\* identifier it is (head, tail) with no error, tail the last segment of p,
\* head accepted by ParsePath, and Segments(head) then tail the Segments of p.
PopsLast ==
    /\ ret.err = ""
    /\ ret.tail = Last(ret.segs)
    /\ ret.headErr = ""
    /\ Append(ret.headSegs, ret.tail) = ret.segs

PopsNothing == ret.head = ret.p /\ ret.tail = "" /\ ret.err = ""

C8_Original ==
    ret.op = "PopLastSegment"
    => /\ ret.justAKey => PopsNothing
       /\ Len(ret.segs) >= 3 => PopsLast

\* C8: the same, for the paths with a segment after the identifier that hold
\* no ".." component.
C8_PopLastSegment ==
    ret.op = "PopLastSegment"
    => /\ ret.justAKey => PopsNothing
       /\ (Len(ret.segs) >= 3 /\ \A i \in 1..Len(ret.p) : ret.p[i] # "..") => PopsLast

C8_Witness ==
    /\ ret.op = "PopLastSegment"
    /\ parts = <<"Qm1", "a", ".", "dms3fs">>
    /\ ret.err = "" /\ ret.tail = "dms3fs"
    /\ ret.head = <<"/", "dms3fs", "/", "Qm1", "/", "a">>

\* C9: in ResolveToLastNode a single-hop failure other than link-not-found
\* is returned, with no id and without in-node resolution.
C9_OtherErrorsReturned ==
    (/\ call = "ResolveToLastNode" /\ Len(hops) > 0
     /\ Last(hops).err \notin {"", "ErrLinkNotFound"})
    => /\ pc = "done"
       /\ inNode.op = "none"
       /\ ret.err = Last(hops).err
       /\ ret.cid = NoCid

\* C10: in ResolveLinks the deadline in force during a hop is the earlier of
\* that hop's start plus one minute and the caller's deadline.
EarlierOf(t, c) == IF c.set /\ c.at <= t THEN c ELSE [set |-> TRUE, at |-> t]

C10_FreshDeadlinePerHop ==
    call \in {"ResolveLinks", "ResolvePath"}
    => \A i \in 1..Len(hops) :
          hops[i].deadline = EarlierOf(hops[i].start + Minute, callerCtx)

====
